---- MODULE Spec2Model ----
(***************************************************************************)
(* A model of the BloomFilter class of cpp-bf.  The repository holds two   *)
(* versions of the class:                                                  *)
(*   "v1"  src/bloom_filter.cpp, src/bloom_filter.h                        *)
(*   "v2"  src/src/bloomfilter/bloom_filter.cpp, .../bloom_filter.h        *)
(* The variable impl says which one a behaviour runs; it never changes.    *)
(*                                                                         *)
(* size_t and uint64_t are 64 bits wide in the builds the bindings target. *)
(* TLC's integers are 32 bits wide, so the model keeps the modular         *)
(* arithmetic of the code at a narrower width, SizeWidth: every size_t or  *)
(* uint64_t expression is reduced modulo SizeModulus where the code's is   *)
(* reduced modulo 2^64.  A 64-bit word of the bit array is the set of the  *)
(* offsets (0..63) of its 1 bits.                                          *)
(***************************************************************************)
EXTENDS Integers, Sequences, FiniteSets, TLC

\* Width, in bits, of size_t and uint64_t in the model.
SizeWidth == 14

SizeModulus == 2 ^ SizeWidth

\* std::numeric_limits<size_t>::max()
SizeMax == SizeModulus - 1

\* Bits per word of bits_ (std::vector<uint64_t>).
WordBits == 64

\* The cap on num_hashes_ of each version.
K_MAX_v1 == 32

K_MAX_v2 == 16

Impls == {"v1", "v2"}

\* The seeds of the two base hashes, named by their literals.
SEED1 == "0x5F0D42B1A956789F"

SEED2 == "0x9B1A75C3E0D6F2A7"

Max(a, b) == IF a >= b THEN a ELSE b

Min(a, b) == IF a <= b THEN a ELSE b

(***************************************************************************)
(* Doubles.  A false_positive_rate p is a record of what the code reads    *)
(* of it: whether it is a NaN, how it compares with 0.0 and 1.0 ("le0",    *)
(* "unit" for 0 < p < 1, "ge1"), and the value std::log returns for it, in *)
(* millionths and negated (negln is -log(p) * 10^6, used when p is unit).  *)
(***************************************************************************)
Micro == 10 ^ 6

NaN == [nan |-> TRUE, class |-> "nan", negln |-> 0]

Rate(class, negln) == [nan |-> FALSE, class |-> class, negln |-> negln]

\* log(2.0) * log(2.0) (v1) and LN2_SQUARED (v2), in millionths.
LN2_SQUARED == 480453

\* log(2.0) (v1) and LN2 (v2), in millionths.
LN2 == 693147

\* p <= 0.0 and p >= 1.0 are both false of a NaN.
LeZero(p) == ~p.nan /\ p.class = "le0"

GeOne(p) == ~p.nan /\ p.class = "ge1"

\* ceil(a / b) for a >= 0, b > 0, in unbounded arithmetic.
CeilDiv(a, b) == (a + b - 1) \div b

(***************************************************************************)
(* <<q, r>> with a * b = q * c + r and 0 <= r < c, for a >= 0, 0 <= b,     *)
(* c > 0: the exact quotient of a product that need not fit in 32 bits,    *)
(* by binary long multiplication over the bits of a.                       *)
(***************************************************************************)
RECURSIVE MulDivMod(_, _, _)
MulDivMod(a, b, c) ==
    IF a = 0 THEN <<0, 0>>
    ELSE LET h == MulDivMod(a \div 2, b, c)
             t == 2 * h[2] + (a % 2) * (b % c)
         IN  <<2 * h[1] + (a % 2) * (b \div c) + t \div c, t % c>>

\* ceil(a * b / c)
CeilMulDiv(a, b, c) ==
    LET qr == MulDivMod(a, b, c)
    IN  qr[1] + (IF qr[2] > 0 THEN 1 ELSE 0)

\* a * b / c > d, for an integer d
MulDivGreater(a, b, c, d) ==
    LET qr == MulDivMod(a, b, c)
    IN  qr[1] > d \/ (qr[1] = d /\ qr[2] > 0)

(***************************************************************************)
(* static_cast<double>(std::numeric_limits<size_t>::max()): 2^64 - 1 has   *)
(* 64 significant bits, a double has 53, and the conversion rounds to      *)
(* nearest: the result is 2^64.                                            *)
(***************************************************************************)
SizeMaxAsDouble == SizeModulus

(***************************************************************************)
(* static_cast<size_t> of a double that is NaN or not below 2^64 is        *)
(* undefined behaviour.  The builds in use give 0 (x86-64, value 2^64),    *)
(* 2^63 (x86-64, NaN) or the saturated SIZE_MAX (AArch64).                 *)
(***************************************************************************)
FloatToSizeUB == {0, SizeModulus \div 2, SizeMax}

(***************************************************************************)
(* The filter: num_bits_, num_hashes_ and bits_.  NoFilter stands for "no  *)
(* object": a constructor that throws leaves none behind.                  *)
(***************************************************************************)
Filter(m, k, words) == [num_bits |-> m, num_hashes |-> k, bits |-> words]

NoFilter == Filter(0, 0, <<>>)

\* What a constructor call ends in: an exception (err) or a filter.
Thrown(e) == [err |-> e, flt |-> NoFilter]

Built(f) == [err |-> "none", flt |-> f]

\* std::vector<uint64_t>::assign(num_blocks, 0)
ZeroWords(num_blocks) == [i \in 1..num_blocks |-> {}]

(***************************************************************************)
(* calculate_optimal_params: the set of results, each <<err, num_bits_,    *)
(* num_hashes_>>.  m_candidate is n * negln / LN2_SQUARED.  The set has    *)
(* more than one member only where the conversion to size_t is undefined.  *)
(***************************************************************************)
calculate_optimal_params_v1(n, p) ==
    IF ~p.nan /\ MulDivGreater(n, p.negln, LN2_SQUARED, SizeMaxAsDouble)
    THEN {<<"overflow_error", 0, 0>>}
    ELSE LET ceiled == CeilMulDiv(n, p.negln, LN2_SQUARED)
             cast   == IF p.nan \/ ceiled > SizeMax THEN FloatToSizeUB ELSE {ceiled}
         IN  { LET num_bits   == Max(1, c)
                   k_ceiled   == CeilDiv(CeilMulDiv(num_bits, LN2, Micro), n)
                   num_hashes == Min(Max(1, k_ceiled), K_MAX_v1)
               IN  <<"none", num_bits, num_hashes>> : c \in cast }

calculate_optimal_params_v2(n, p) ==
    IF ~p.nan /\ MulDivGreater(n, p.negln, LN2_SQUARED, SizeMaxAsDouble)
    THEN {<<"overflow_error", 0, 0>>}
    ELSE LET ceiled == CeilMulDiv(n, p.negln, LN2_SQUARED)
             cast   == IF p.nan \/ ceiled > SizeMax THEN FloatToSizeUB ELSE {ceiled}
         IN  { LET num_bits   == Max(1, c)
                   k_ceiled   == CeilDiv(CeilMulDiv(num_bits, LN2, Micro), n)
                   num_hashes == IF k_ceiled < 1 THEN 1
                                 ELSE IF k_ceiled > K_MAX_v2 THEN K_MAX_v2
                                 ELSE k_ceiled
               IN  <<"none", num_bits, num_hashes>> : c \in cast }

(***************************************************************************)
(* initialize_bits: (num_bits_ + 63) / 64 in size_t arithmetic, then       *)
(* bits_.assign.  The allocation of a non-empty vector may fail: v1 turns  *)
(* std::bad_alloc into std::runtime_error, v2 lets it through.             *)
(***************************************************************************)
NumBlocks(num_bits) == ((num_bits + (WordBits - 1)) % SizeModulus) \div WordBits

initialize_bits_v1(m, k) ==
    LET num_blocks == NumBlocks(m)
    IN  {Built(Filter(m, k, ZeroWords(num_blocks)))}
        \cup (IF num_blocks > 0 THEN {Thrown("runtime_error")} ELSE {})

initialize_bits_v2(m, k) ==
    LET num_blocks == NumBlocks(m)
    IN  {Built(Filter(m, k, ZeroWords(num_blocks)))}
        \cup (IF num_blocks > 0 THEN {Thrown("bad_alloc")} ELSE {})

(***************************************************************************)
(* The three constructors of each version: the set of outcomes of a call.  *)
(***************************************************************************)
BloomFilter_optimal_v1(n, p) ==
    IF n = 0 THEN {Thrown("invalid_argument")}
    ELSE IF LeZero(p) \/ GeOne(p) THEN {Thrown("invalid_argument")}
    ELSE UNION { IF r[1] # "none" THEN {Thrown(r[1])}
                 ELSE initialize_bits_v1(r[2], r[3])
                 : r \in calculate_optimal_params_v1(n, p) }

BloomFilter_optimal_v2(n, p) ==
    IF n = 0 \/ LeZero(p) \/ GeOne(p) THEN {Thrown("invalid_argument")}
    ELSE UNION { IF r[1] # "none" THEN {Thrown(r[1])}
                 ELSE initialize_bits_v2(r[2], r[3])
                 : r \in calculate_optimal_params_v2(n, p) }

BloomFilter_explicit_v1(num_bits, num_hashes) ==
    IF num_bits = 0 THEN {Thrown("invalid_argument")}
    ELSE IF num_hashes = 0 THEN {Thrown("invalid_argument")}
    ELSE initialize_bits_v1(num_bits, num_hashes)

\* The explicit constructor with the test of num_hashes_ left out.
explicit_unchecked_hashes_v2(num_bits, num_hashes) ==
    IF num_bits = 0 THEN {Thrown("invalid_argument")}
    ELSE initialize_bits_v2(num_bits, num_hashes)

BloomFilter_explicit_v2(num_bits, num_hashes) ==
    IF num_bits = 0 \/ num_hashes = 0 THEN {Thrown("invalid_argument")}
    ELSE initialize_bits_v2(num_bits, num_hashes)

\* The restore constructor that validates and then calls initialize_bits,
\* as the other two constructors do, losing the words it was given.
restore_reinitialized_v1(num_bits, num_hashes, bits_data) ==
    IF num_bits = 0 \/ num_hashes = 0 THEN {Thrown("invalid_argument")}
    ELSE IF Len(bits_data) # NumBlocks(num_bits) THEN {Thrown("runtime_error")}
    ELSE initialize_bits_v1(num_bits, num_hashes)

\* bits_(bits_data) copies the vector before the body runs; the copy of a
\* non-empty vector may fail with std::bad_alloc.
BloomFilter_restore_v1(num_bits, num_hashes, bits_data) ==
    (IF Len(bits_data) > 0 THEN {Thrown("bad_alloc")} ELSE {})
    \cup
    (IF num_bits = 0 \/ num_hashes = 0 THEN {Thrown("invalid_argument")}
     ELSE LET expected_blocks == NumBlocks(num_bits)
          IN  IF Len(bits_data) # expected_blocks THEN {Thrown("runtime_error")}
              ELSE {Built(Filter(num_bits, num_hashes, bits_data))})

BloomFilter_restore_v2(num_bits, num_hashes, bits_data) ==
    (IF Len(bits_data) > 0 THEN {Thrown("bad_alloc")} ELSE {})
    \cup
    (IF num_bits = 0 \/ num_hashes = 0 \/ Len(bits_data) # NumBlocks(num_bits)
     THEN {Thrown("invalid_argument")}
     ELSE {Built(Filter(num_bits, num_hashes, bits_data))})

(***************************************************************************)
(* XXH64(data, len, seed) is the xxHash library's: a fixed function of the *)
(* bytes and the seed.  The model has two items and gives each its two     *)
(* hashes: "a" has small hashes, "b" has hashes whose sum wraps.           *)
(***************************************************************************)
Items == {"a", "b"}

XXH64(item, seed) ==
    CASE item = "a" /\ seed = SEED1 -> 5
      [] item = "a" /\ seed = SEED2 -> 3
      [] item = "b" /\ seed = SEED1 -> SizeMax - 1
      [] item = "b" /\ seed = SEED2 -> 7

\* bits_[block_index] is past the end of the vector
OutOfBounds(words, bit_index) == bit_index \div WordBits >= Len(words)

\* (bits_[block_index] >> offset_in_block) & 1ULL
TestBit(words, bit_index) ==
    (bit_index % WordBits) \in words[(bit_index \div WordBits) + 1]

(***************************************************************************)
(* bits_[block_index] |= (1ULL << offset_in_block) for each of the indices *)
(* idx, in order.  A write past the end of the vector lands outside the    *)
(* filter's words.                                                         *)
(***************************************************************************)
\* The loop with bits_[block_index] = (1ULL << offset_in_block) for |=: each
\* write replaces the word, so a word keeps only the last bit written to it.
set_bits_overwriting(words, idx) ==
    [w \in 1..Len(words) |->
        LET js == {j \in 1..Len(idx) : idx[j] \div WordBits = w - 1}
        IN  IF js = {} THEN words[w]
            ELSE {idx[CHOOSE j \in js : \A h \in js : h <= j] % WordBits}]

SetBits(words, idx) ==
    [w \in 1..Len(words) |->
        words[w] \cup { idx[j] % WordBits :
                        j \in {j \in 1..Len(idx) : idx[j] \div WordBits = w - 1} }]

(***************************************************************************)
(* The bit indices the loop of add computes, in order.                     *)
(*   v1: combined_hash = hash1 + i * hash2 (uint64_t), modulo num_bits_.   *)
(*   v2: current_step_val += i; index = current_probe_hash % num_bits_;    *)
(*       current_probe_hash += current_step_val.                           *)
(***************************************************************************)
add_indices_v1(f, hash1, hash2) ==
    [j \in 1..f.num_hashes |->
        LET i             == j - 1
            combined_hash == (hash1 + ((i * hash2) % SizeModulus)) % SizeModulus
        IN  combined_hash % f.num_bits]

RECURSIVE add_indices_v2(_, _, _, _)
add_indices_v2(f, current_probe_hash, current_step_val, i) ==
    IF i >= f.num_hashes THEN <<>>
    ELSE LET step      == (current_step_val + i) % SizeModulus
             bit_index == current_probe_hash % f.num_bits
         IN  <<bit_index>> \o
             add_indices_v2(f, (current_probe_hash + step) % SizeModulus, step, i + 1)

(***************************************************************************)
(* add: the set of outcomes.  A write past the end of bits_ is undefined   *)
(* behaviour: the process dies ("crash") or the write lands in memory that *)
(* is not the filter's and add returns.                                    *)
(***************************************************************************)
AddOutcomes(f, idx) ==
    {[ret |-> "void", flt |-> [f EXCEPT !.bits = SetBits(f.bits, idx)], probes |-> idx]}
    \cup (IF \E j \in 1..Len(idx) : OutOfBounds(f.bits, idx[j])
          THEN {[ret |-> "crash", flt |-> f, probes |-> idx]}
          ELSE {})

add_v1(f, item) ==
    IF f.num_bits = 0 THEN {[ret |-> "void", flt |-> f, probes |-> <<>>]}
    ELSE AddOutcomes(f, add_indices_v1(f, XXH64(item, SEED1), XXH64(item, SEED2)))

add_v2(f, item) ==
    AddOutcomes(f, add_indices_v2(f, XXH64(item, SEED1), XXH64(item, SEED2), 0))

(***************************************************************************)
(* The bit indices the loop of might_contain computes when it runs to the  *)
(* end; the loop is written out a second time in the code.                 *)
(***************************************************************************)
might_contain_indices_v1(f, hash1, hash2) ==
    [j \in 1..f.num_hashes |->
        LET i             == j - 1
            combined_hash == (hash1 + ((i * hash2) % SizeModulus)) % SizeModulus
        IN  combined_hash % f.num_bits]

\* The loop of might_contain that forgets current_step_val += i, so that it
\* walks h1 + i * h2 where add walks the enhanced sequence.
RECURSIVE might_contain_fixed_step_v2(_, _, _, _)
might_contain_fixed_step_v2(f, current_probe_hash, current_step_val, i) ==
    IF i >= f.num_hashes THEN <<>>
    ELSE <<current_probe_hash % f.num_bits>> \o
         might_contain_fixed_step_v2(f,
             (current_probe_hash + current_step_val) % SizeModulus,
             current_step_val, i + 1)

RECURSIVE might_contain_indices_v2(_, _, _, _)
might_contain_indices_v2(f, current_probe_hash, current_step_val, i) ==
    IF i >= f.num_hashes THEN <<>>
    ELSE LET step      == (current_step_val + i) % SizeModulus
             bit_index == current_probe_hash % f.num_bits
         IN  <<bit_index>> \o
             might_contain_indices_v2(f, (current_probe_hash + step) % SizeModulus,
                                      step, i + 1)

(***************************************************************************)
(* might_contain: the set of outcomes, each the value returned and the bit *)
(* indices tested.  The loop returns false at the first index whose bit is *)
(* 0 and true after the last.  A read past the end of bits_ is undefined   *)
(* behaviour: the process dies, or the read yields whatever bit the memory *)
(* there holds.                                                            *)
(***************************************************************************)
Returned(ret, probes) == [ret |-> ret, probes |-> probes]

MightContainOutcomes(f, idx) ==
    LET MayBeSet(j)   == OutOfBounds(f.bits, idx[j]) \/ TestBit(f.bits, idx[j])
        MayBeClear(j) == OutOfBounds(f.bits, idx[j]) \/ ~TestBit(f.bits, idx[j])
        Reaches(j)    == \A h \in 1..(j - 1) : MayBeSet(h)
    IN  { Returned("false", SubSeq(idx, 1, j)) :
              j \in {j \in 1..Len(idx) : Reaches(j) /\ MayBeClear(j)} }
        \cup
        { Returned("crash", SubSeq(idx, 1, j)) :
              j \in {j \in 1..Len(idx) : Reaches(j) /\ OutOfBounds(f.bits, idx[j])} }
        \cup
        (IF Reaches(Len(idx) + 1) THEN {Returned("true", idx)} ELSE {})

might_contain_v1(f, item) ==
    IF f.num_bits = 0 THEN {Returned("false", <<>>)}
    ELSE MightContainOutcomes(f,
             might_contain_indices_v1(f, XXH64(item, SEED1), XXH64(item, SEED2)))

might_contain_v2(f, item) ==
    MightContainOutcomes(f,
        might_contain_indices_v2(f, XXH64(item, SEED1), XXH64(item, SEED2), 0))

(***************************************************************************)
(* The arguments the callers pass.                                         *)
(***************************************************************************)
NumBitsInputs == {0, 1, 3, 64, 65, 130, SizeMax - 63, SizeMax - 62, SizeMax}

NumHashesInputs == {0, 1, 3}

\* raw words handed to the restore constructor (0 to 3 words)
WordsInputs == {<<>>, <<{}>>, <<{5}>>, <<{}, {1}>>, <<{5, 8}, {}, {1}>>}

ItemCountInputs == {0, 1, 1000, SizeModulus \div 2}

\* 0.0, 1.0, NaN, 0.5, 0.01, 1e-12, and the rate whose log is -2 ln(2)^2
\* (0.38254...), for which n = 2^(w-1) gives m_candidate = 2^w exactly.
RateInputs ==
    {Rate("le0", 0), Rate("ge1", 0), NaN,
     Rate("unit", 693147), Rate("unit", 4605170), Rate("unit", 27631021),
     Rate("unit", 2 * LN2_SQUARED)}

(***************************************************************************)
(* State.                                                                  *)
(*   impl      which version of the class runs                             *)
(*   pc        "start": nothing constructed; "live": flt exists;           *)
(*             "failed": the constructor threw; "crashed": the process died *)
(*   ctor      the constructor call made: its kind and arguments           *)
(*   err       the exception the constructor threw, or "none"              *)
(*   built     <<num_bits, num_hashes>> of flt when its constructor ended  *)
(*   flt       the filter                                                  *)
(*   added     the items add has been called with                          *)
(*   last      the last add or might_contain call: item, result, and the   *)
(*             bit indices it wrote or tested, in order                    *)
(*   answered  per item, what might_contain last returned for it           *)
(*   exported  the tuple __getstate__ last returned                        *)
(*   restored  the outcome of __setstate__ on that tuple                   *)
(***************************************************************************)
VARIABLES impl, pc, ctor, err, built, flt, added, last, answered, exported, restored

vars == <<impl, pc, ctor, err, built, flt, added, last, answered, exported, restored>>

NoCall == [kind |-> "none", n |-> 0, p |-> NaN,
           num_bits |-> 0, num_hashes |-> 0, words |-> <<>>]

NoOp == [op |-> "none", item |-> "", ret |-> "", probes |-> <<>>]

NoExport == <<0, 0, <<>>>>

NotRestored == [err |-> "unset", flt |-> NoFilter]

Init ==
    /\ impl \in Impls
    /\ pc = "start"
    /\ ctor = NoCall
    /\ err = "none"
    /\ built = <<0, 0>>
    /\ flt = NoFilter
    /\ added = {}
    /\ last = NoOp
    /\ answered = [x \in Items |-> "none"]
    /\ exported = NoExport
    /\ restored = NotRestored

\* The member functions of the version that runs.
Call_add(f, x) == IF impl = "v1" THEN add_v1(f, x) ELSE add_v2(f, x)

Call_might_contain(f, x) ==
    IF impl = "v1" THEN might_contain_v1(f, x) ELSE might_contain_v2(f, x)

\* A constructor call ends in outcome o.
Constructed(call, o) ==
    /\ ctor' = call
    /\ err' = o.err
    /\ flt' = o.flt
    /\ built' = <<o.flt.num_bits, o.flt.num_hashes>>
    /\ pc' = IF o.err = "none" THEN "live" ELSE "failed"
    /\ UNCHANGED <<impl, added, last, answered, exported, restored>>

\* BloomFilter(estimated_num_items, false_positive_rate)
ConstructOptimal ==
    /\ pc = "start"
    /\ \E n \in ItemCountInputs, p \in RateInputs :
         \E o \in (IF impl = "v1" THEN BloomFilter_optimal_v1(n, p)
                                  ELSE BloomFilter_optimal_v2(n, p)) :
            Constructed([NoCall EXCEPT !.kind = "optimal", !.n = n, !.p = p], o)

\* BloomFilter(num_bits, num_hashes)
ConstructExplicit ==
    /\ pc = "start"
    /\ \E m \in NumBitsInputs, k \in NumHashesInputs :
         \E o \in (IF impl = "v1" THEN BloomFilter_explicit_v1(m, k)
                                  ELSE BloomFilter_explicit_v2(m, k)) :
            Constructed([NoCall EXCEPT !.kind = "explicit",
                                       !.num_bits = m, !.num_hashes = k], o)

\* BloomFilter(num_bits, num_hashes, bits_data)
ConstructRestore ==
    /\ pc = "start"
    /\ \E m \in NumBitsInputs, k \in NumHashesInputs, w \in WordsInputs :
         \E o \in (IF impl = "v1" THEN BloomFilter_restore_v1(m, k, w)
                                  ELSE BloomFilter_restore_v2(m, k, w)) :
            Constructed([NoCall EXCEPT !.kind = "restore", !.num_bits = m,
                                       !.num_hashes = k, !.words = w], o)

\* add(item)
Add ==
    /\ pc = "live"
    /\ \E x \in Items :
         \E o \in Call_add(flt, x) :
            /\ pc' = IF o.ret = "crash" THEN "crashed" ELSE "live"
            /\ flt' = o.flt
            /\ added' = added \cup {x}
            /\ last' = [op |-> "add", item |-> x, ret |-> o.ret, probes |-> o.probes]
            /\ UNCHANGED <<impl, ctor, err, built, answered, exported, restored>>

\* might_contain(item)
MightContain ==
    /\ pc = "live"
    /\ \E x \in Items :
         \E o \in Call_might_contain(flt, x) :
            /\ pc' = IF o.ret = "crash" THEN "crashed" ELSE "live"
            /\ last' = [op |-> "might_contain", item |-> x,
                        ret |-> o.ret, probes |-> o.probes]
            /\ answered' = IF o.ret = "crash" THEN answered
                           ELSE [answered EXCEPT ![x] = o.ret]
            /\ UNCHANGED <<impl, ctor, err, built, flt, added, exported, restored>>

\* __getstate__: (get_num_bits(), get_num_hashes(), get_raw_bits_vector())
getstate(f) == <<f.num_bits, f.num_hashes, f.bits>>

\* __setstate__: the restore constructor on the three members of the tuple
setstate_v1(t) == BloomFilter_restore_v1(t[1], t[2], t[3])

setstate_v2(t) == BloomFilter_restore_v2(t[1], t[2], t[3])

\* pickle round trip: export the live filter and restore a second one
RoundTrip ==
    /\ pc = "live"
    /\ LET t == getstate(flt)
       IN  /\ exported' = t
           /\ restored' \in (IF impl = "v1" THEN setstate_v1(t) ELSE setstate_v2(t))
    /\ UNCHANGED <<impl, pc, ctor, err, built, flt, added, last, answered>>

Next ==
    \/ ConstructExplicit
    \/ ConstructOptimal
    \/ ConstructRestore
    \/ Add
    \/ MightContain
    \/ RoundTrip

Spec == Init /\ [][Next]_vars

(***************************************************************************)
(*                              The claims                                 *)
(***************************************************************************)

\* C1 (no false negatives): whenever might_contain is called with an item
\* that add has been called with before, on a filter with num_bits >= 1 and
\* num_hashes >= 1, it returns true.
C1_NoFalseNegatives ==
    (last.op = "might_contain" /\ last.item \in added) => last.ret = "true"

\* C2 (monotonicity): over any step of a live filter no bit of the bit array
\* goes from 1 to 0, and no item whose last might_contain answer was true
\* gets the answer false.
C2_Monotonicity ==
    [][(pc = "live" /\ pc' = "live") =>
          /\ Len(flt'.bits) = Len(flt.bits)
          /\ \A w \in 1..Len(flt.bits) : flt.bits[w] \subseteq flt'.bits[w]
          /\ \A x \in Items : answered[x] = "true" => answered'[x] # "false"]_vars

\* The answers might_contain can give for item x on filter f.
Answers(f, x) == { o.ret : o \in Call_might_contain(f, x) }

C4_RestoreValidation ==
    (/\ ctor.kind = "restore"
     /\ ctor.num_bits >= 1
     /\ ctor.num_hashes >= 1
     /\ err # "bad_alloc"
     /\ Len(ctor.words) # CeilDiv(ctor.num_bits, WordBits))
    => /\ err \notin {"none", "invalid_argument"}
       /\ pc = "failed"
       /\ flt = NoFilter

\* C5 (construction parameter validation): optimal construction with n = 0,
\* p <= 0 or p >= 1, and explicit construction with num_bits = 0 or
\* num_hashes = 0, fail with the invalid-parameter error, and no filter exists.
C5_InvalidParameters ==
    (\/ /\ ctor.kind = "optimal"
        /\ (ctor.n = 0 \/ ctor.p.class \in {"le0", "ge1"})
     \/ /\ ctor.kind = "explicit"
        /\ (ctor.num_bits = 0 \/ ctor.num_hashes = 0))
    => /\ err = "invalid_argument"
       /\ pc = "failed"
       /\ flt = NoFilter
       /\ built = <<0, 0>>

\* C5 witness: an explicit construction with a positive bit count and a zero
\* hash count has been made.
C5_Witness ==
    /\ ctor.kind = "explicit"
    /\ ctor.num_bits > 0
    /\ ctor.num_hashes = 0
    /\ pc = "failed"

\* The hashes of the item of the last call.
LastHash1 == XXH64(last.item, SEED1)

LastHash2 == XXH64(last.item, SEED2)

\* C6 as stated (probe sequence): add writes the num_hashes positions
\* (h1 + i * h2) mod num_bits, i = 0 .. num_hashes - 1, in that order, and
\* might_contain tests the same positions in the same order (up to the one at
\* which it returns).
C6_CanonicalProbes ==
    (pc = "live" /\ last.op \in {"add", "might_contain"}) =>
        LET seq == [j \in 1..flt.num_hashes |->
                       (LastHash1 + (j - 1) * LastHash2) % flt.num_bits]
        IN  /\ Len(last.probes) <= flt.num_hashes
            /\ last.probes = SubSeq(seq, 1, Len(last.probes))
            /\ last.op = "add" => Len(last.probes) = flt.num_hashes

\* The i-th probe hash in closed form: h1 + i * h2 in 64-bit arithmetic for
\* v1, and h1 + i * h2 + (i - 1) i (i + 1) / 6 in 64-bit arithmetic for v2.
ProbeHash(i) ==
    IF impl = "v1"
    THEN (LastHash1 + i * LastHash2) % SizeModulus
    ELSE (LastHash1 + i * LastHash2 + ((i - 1) * i * (i + 1)) \div 6) % SizeModulus

\* C6 as amended: a call of add that returns has written, in order, the
\* num_hashes positions ProbeHash(i) mod num_bits, i = 0 .. num_hashes - 1; a
\* call of might_contain that returns has tested a prefix of the same sequence,
\* all of it when it returns true; every position is in [0, num_bits).
C6_ProbeSequence ==
    (pc = "live" /\ last.op \in {"add", "might_contain"}) =>
        LET seq == [j \in 1..flt.num_hashes |-> ProbeHash(j - 1) % flt.num_bits]
            n   == Len(last.probes)
        IN  /\ n <= flt.num_hashes
            /\ last.probes = SubSeq(seq, 1, n)
            /\ \A j \in 1..n : last.probes[j] >= 0 /\ last.probes[j] < flt.num_bits
            /\ last.op = "add" => n = flt.num_hashes
            /\ last.op = "might_contain" =>
                  /\ n >= 1
                  /\ last.ret = "true" => n = flt.num_hashes

\* C6 witness: might_contain has returned true for the item whose hashes wrap,
\* after testing at least three positions.
C6_Witness ==
    /\ pc = "live"
    /\ last.op = "might_contain"
    /\ last.item = "b"
    /\ last.ret = "true"
    /\ Len(last.probes) >= 3
    /\ flt.num_bits > 3

KMax == IF impl = "v1" THEN K_MAX_v1 ELSE K_MAX_v2

\* C7 (parameter derivation): a filter built by optimal construction from
\* n >= 1 and 0 < p < 1 has num_bits = max(1, ceil(-n ln p / (ln 2)^2)) and
\* num_hashes = ceil((num_bits / n) ln 2) clamped to [1, K_MAX]; n = 1000 and
\* p = 0.01 give 9586 and 7.
C7_Derivation ==
    (pc = "live" /\ ctor.kind = "optimal" /\ ctor.n >= 1 /\ ctor.p.class = "unit") =>
        LET m == Max(1, CeilMulDiv(ctor.n, ctor.p.negln, LN2_SQUARED))
            k == CeilDiv(CeilMulDiv(m, LN2, Micro), ctor.n)
        IN  /\ flt.num_bits = m
            /\ flt.num_hashes = Min(Max(1, k), KMax)
            /\ (ctor.n = 1000 /\ ctor.p.negln = 4605170) =>
                  (flt.num_bits = 9586 /\ flt.num_hashes = 7)

\* C8 (overflow on derivation): optimal construction from n >= 1 and
\* 0 < p < 1 whose bit count ceil(-n ln p / (ln 2)^2) exceeds the largest
\* size_t fails with the overflow error, and no filter is produced.
C8_Overflow ==
    (/\ ctor.kind = "optimal"
     /\ ctor.n >= 1
     /\ ctor.p.class = "unit"
     /\ CeilMulDiv(ctor.n, ctor.p.negln, LN2_SQUARED) > SizeMax)
    => /\ err = "overflow_error"
       /\ pc = "failed"
       /\ flt = NoFilter

\* C10 (structural invariant): a live filter has exactly ceil(num_bits / 64)
\* words, num_bits >= 1, num_hashes >= 1, and the num_bits and num_hashes its
\* constructor gave it.
C10_Structure ==
    pc = "live" =>
        /\ Len(flt.bits) = CeilDiv(flt.num_bits, WordBits)
        /\ flt.num_bits >= 1
        /\ flt.num_hashes >= 1
        /\ <<flt.num_bits, flt.num_hashes>> = built

\* The words the constructor call left in the filter: the words handed to the
\* restore constructor, zero words otherwise.
ConstructedWords ==
    IF ctor.kind = "restore" THEN ctor.words ELSE ZeroWords(Len(flt.bits))

\* The bit arrays a sequence of add calls, each of which returns, can leave
\* in filter f.
RECURSIVE AfterAdds(_, _)
AfterAdds(f, xs) ==
    IF xs = <<>> THEN {f.bits}
    ELSE UNION { AfterAdds(o.flt, Tail(xs)) :
                 o \in {o \in Call_add(f, Head(xs)) : o.ret = "void"} }

\* The bit positions add writes for item x in a filter of the shape of flt.
PositionsOf(x) ==
    LET o == CHOOSE o \in Call_add(flt, x) : o.ret = "void"
    IN  {o.probes[j] : j \in 1..Len(o.probes)}

\* C11 (order independence of add): on a live filter, add(x) twice leaves the
\* bit array a single add(x) leaves, add(x) then add(y) leaves the bit array
\* add(y) then add(x) leaves, and the bit array after any sequence of add calls
\* that returned is the constructed bit array with exactly the positions of
\* the set of items added switched on, whatever the order and the repetitions
\* of the calls.
C11_OrderIndependence ==
    pc = "live" =>
        LET once(x)   == AfterAdds(flt, <<x>>)
            positions == UNION { PositionsOf(x) : x \in added }
            switched  == [w \in 1..Len(flt.bits) |->
                             { b % WordBits :
                               b \in {b \in positions : b \div WordBits = w - 1} }]
        IN  /\ \A x \in Items :
                  /\ Cardinality(once(x)) = 1
                  /\ AfterAdds(flt, <<x, x>>) = once(x)
            /\ \A x \in Items : \A y \in Items \ {x} :
                  AfterAdds(flt, <<x, y>>) = AfterAdds(flt, <<y, x>>)
            /\ Len(flt.bits) = Len(ConstructedWords)
            /\ \A w \in 1..Len(flt.bits) :
                  flt.bits[w] = ConstructedWords[w] \cup switched[w]

\* C11 witness: both items have been added to a filter of three words built
\* with three hashes, the last call was an add that returned, and some word
\* holds bits that the constructor did not leave there.
C11_Witness ==
    /\ pc = "live"
    /\ added = Items
    /\ last.op = "add"
    /\ last.ret = "void"
    /\ flt.num_hashes = 3
    /\ Len(flt.bits) = 3
    /\ \E w \in 1..Len(flt.bits) :
          Cardinality(flt.bits[w] \ ConstructedWords[w]) >= 2

====
